---- MODULE Spec2Model ----
(***************************************************************************)
(* Camera timestamp extraction (ibllib/io/extractors/camera.py).           *)
(*                                                                         *)
(* attribute_times, align_with_audio, groom_pin_state, the Bpod camera     *)
(* extractor (_times_from_bpod, _extract), the FPGA camera extractor       *)
(* (_extract) and the logger level set by the extractor's constructor and  *)
(* destructor are modelled as state machines, one action per statement     *)
(* group of the Python source; align_with_audio_safe is an operator        *)
(* computed as its source computes it.  Floating point                     *)
(* values are exact rationals num/den extended with NaN and +inf; the      *)
(* comparisons follow IEEE-754 (every comparison with NaN is false).       *)
(* Array indices stored in the state are the 0-based indices of the        *)
(* source; TLA+ sequences are 1-based, so a[j] of the source is a[j + 1].  *)
(***************************************************************************)
EXTENDS Integers, Sequences, FiniteSets, TLC

VARIABLES
    pc, err, ret,
    arr, events, tol, injective, take, mask, assigned, i,
    timestamps, audio, pin_state, count, extrapolate_missing,
    first_uptick, first_ttl, start, ts,
    gpio_arg, gpio, audio_in, ts_in, ifronts, onsets_, offsets_, audio_, unassigned,
    bpod_trials, nframes, ind, cam_times, n_frames, n_out_of_sync, frame_times,
    x_count, x_pin_state, x_audio, calls, extracted,
    fpga_times, length,
    level, instances, prior_level

ctlVars == <<pc, err, ret>>
attrVars == <<arr, events, tol, injective, take, mask, assigned, i>>
alignVars == <<timestamps, audio, pin_state, count, extrapolate_missing,
               first_uptick, first_ttl, start, ts>>
groomVars == <<gpio_arg, gpio, audio_in, ts_in, ifronts, onsets_, offsets_, audio_,
               unassigned>>
\* the variables of the functions other than attribute_times and align_with_audio
bpodVars == <<bpod_trials, nframes, ind, cam_times, n_frames, n_out_of_sync, frame_times>>
extractVars == <<x_count, x_pin_state, x_audio, calls, extracted>>
fpgaVars == <<fpga_times, length>>
\* prior_level records the level of the logger before the first creation
loggerVars == <<level, instances, prior_level>>
otherVars == <<groomVars, bpodVars, extractVars, fpgaVars, loggerVars>>
vars == <<ctlVars, attrVars, alignVars, otherVars>>

(***************************************************************************)
(* Bounds of the model.                                                    *)
(***************************************************************************)
MaxVal == 3
MaxTol == 3
MaxRef == 2
MaxEvents == 2
MaxTime == 3
MaxFrame == 3
Resolution == 1

(***************************************************************************)
(* Floating point values.                                                  *)
(***************************************************************************)
Rat(n, d) == [cls |-> "fin", num |-> n, den |-> d]
Fin(n) == Rat(n, 1)
NaN == [cls |-> "nan", num |-> 0, den |-> 1]
Inf == [cls |-> "inf", num |-> 0, den |-> 1]

IsFinite(a) == a.cls = "fin"

\* a < b on floats
IsLess(a, b) ==
    IF a.cls = "fin" /\ b.cls = "fin" THEN a.num * b.den < b.num * a.den
    ELSE a.cls = "fin" /\ b.cls = "inf"

Abs(n) == IF n < 0 THEN -n ELSE n

\* np.abs(a - x)
AbsDiff(a, x) ==
    IF a.cls = "nan" \/ x.cls = "nan" THEN NaN
    ELSE IF a.cls = "inf" /\ x.cls = "inf" THEN NaN
    ELSE IF a.cls = "inf" \/ x.cls = "inf" THEN Inf
    ELSE Rat(Abs(a.num * x.den - x.num * a.den), a.den * x.den)

SeqsUpTo(S, n) == UNION {[1..k -> S] : k \in 0..n}

(***************************************************************************)
(* attribute_times(arr, events, tol, injective, take)                      *)
(***************************************************************************)
\* str.lower() on the policy strings the model passes
Lower(s) ==
    CASE s = "First" -> "first"
      [] s = "NEAREST" -> "nearest"
      [] OTHER -> s

\* take not in ('first', 'nearest')
BadTakeAlt(tk) == FALSE
BadTake(tk) == tk \notin {"first", "nearest"}

\* np.ma.masked_invalid(arr).mask
masked_invalid(a) == [j \in 1..Len(a) |-> ~IsFinite(a[j])]

\* stack.fill_value
fill_alt == Fin(0)
fill_value == Inf

\* stack.filled()
filled(a, m) == [j \in 1..Len(a) |-> IF m[j] THEN fill_value ELSE a[j]]

\* dx = np.abs(stack.filled() - x)
Dx(a, m, x) == [j \in 1..Len(a) |-> AbsDiff(filled(a, m)[j], x)]

\* ndarray.min() of a non-empty array: NaN propagates
ArrMin(dx) ==
    IF \E j \in 1..Len(dx) : dx[j].cls = "nan" THEN NaN
    ELSE dx[CHOOSE j \in 1..Len(dx) : \A k \in 1..Len(dx) : ~IsLess(dx[k], dx[j])]

\* ndarray.argmin() of an array without NaN: first index of the minimum (0-based)
ArgMin(dx) ==
    (CHOOSE j \in 1..Len(dx) :
        /\ \A k \in 1..Len(dx) : ~IsLess(dx[k], dx[j])
        /\ \A k \in 1..(j - 1) : IsLess(dx[j], dx[k])) - 1

\* np.where(dx < tol)[0][0] (0-based)
FirstWithin(dx, t) ==
    (CHOOSE j \in 1..Len(dx) :
        /\ IsLess(dx[j], t)
        /\ \A k \in 1..(j - 1) : ~IsLess(dx[k], t)) - 1

\* if dx.min() < tol
AnyWithinAll(dx, t) == \A j \in 1..Len(dx) : IsLess(dx[j], t)
AnyWithin(dx, t) == IsLess(ArrMin(dx), t)

\* idx = np.where(dx < tol)[0][0] if take == 'first' else dx.argmin()
PickIdxFirst(dx, t, tk) == FirstWithin(dx, t)
PickIdxNearest(dx, t, tk) == ArgMin(dx)
PickIdx(dx, t, tk) == IF tk = "first" THEN FirstWithin(dx, t) ELSE ArgMin(dx)

\* stack.mask[idx] = injective
SetMaskAlt(m, idx, inj) == m
SetMask(m, idx, inj) == [m EXCEPT ![idx + 1] = inj]

\* body of the for loop for candidate k (0-based) with value x
LoopBody(a, x, t, inj, tk, st, k) ==
    LET dx == Dx(a, st.mask, x) IN
    IF AnyWithin(dx, t)
    THEN LET idx == PickIdx(dx, t, tk) IN
         [mask |-> SetMask(st.mask, idx, inj),
          assigned |-> [st.assigned EXCEPT ![k + 1] = idx]]
    ELSE st

\* state of the loop after the first k candidates
RECURSIVE LoopUpTo(_, _, _, _, _, _)
LoopUpTo(a, ev, t, inj, tk, k) ==
    IF k = 0
    THEN [mask |-> masked_invalid(a), assigned |-> [j \in 1..Len(ev) |-> -1]]
    ELSE CHOOSE st \in {LoopBody(a, ev[k], t, inj, tk, prev, k - 1) :
                            prev \in {LoopUpTo(a, ev, t, inj, tk, k - 1)}} : TRUE

\* the array attribute_times returns (arr non-empty or events empty, take valid)
AttributeTimes(a, ev, t, inj, tk) == LoopUpTo(a, ev, t, inj, tk, Len(ev)).assigned

(***************************************************************************)
(* Inputs of attribute_times.  Values are in hundredths of a second.       *)
(***************************************************************************)
Takes == {"first", "NEAREST", "closest"}
RefValues == {Fin(n) : n \in 0..MaxVal} \cup {NaN, Inf}
EventValues == {Fin(n) : n \in 0..MaxVal}
Tols == {Fin(n) : n \in 1..MaxTol}

\* reference=[1.0, 1.05, 3.0], candidates=[1.02, 3.01], tolerance=0.1
ScenarioArr == <<Fin(100), Fin(105), Fin(300)>>
ScenarioEvents == <<Fin(102), Fin(301)>>
ScenarioTol == Fin(10)

\* candidate times in ascending order, as in the arrays the callers pass
EventArrays ==
    {s \in SeqsUpTo(EventValues, MaxEvents) :
        \A j \in 1..(Len(s) - 1) : ~IsLess(s[j + 1], s[j])}

AttrInputs ==
    [arr : SeqsUpTo(RefValues, MaxRef), events : EventArrays, tol : Tols]
    \cup {[arr |-> ScenarioArr, events |-> ScenarioEvents, tol |-> ScenarioTol]}

AlignIdle ==
    /\ timestamps = <<>> /\ audio = [times |-> <<>>]
    /\ pin_state = [indices |-> <<>>, times |-> <<>>]
    /\ count = <<>> /\ extrapolate_missing = TRUE
    /\ first_uptick = 0 /\ first_ttl = 0 /\ start = 0 /\ ts = <<>>

GroomIdle ==
    /\ gpio_arg = [indices |-> <<>>, polarities |-> <<>>] /\ gpio = gpio_arg
    /\ audio_in = [times |-> <<>>, polarities |-> <<>>] /\ ts_in = <<>>
    /\ ifronts = <<>> /\ onsets_ = <<>> /\ offsets_ = <<>>
    /\ audio_ = [times |-> <<>>, polarities |-> <<>>]
    /\ unassigned = <<>>

BpodIdle ==
    /\ bpod_trials = <<>> /\ nframes = 0 /\ ind = 0 /\ cam_times = <<>>
    /\ n_frames = 0 /\ n_out_of_sync = 0 /\ frame_times = <<>>

ExtractIdle ==
    /\ x_count = <<>> /\ x_pin_state = <<>> /\ calls = <<>> /\ extracted = <<>>
    /\ x_audio = [times |-> <<>>, polarities |-> <<>>]

FpgaIdle == fpga_times = <<>> /\ length = 0

\* no extractor has been created and the logger is at its default level
LoggerIdle == level = "WARNING" /\ instances = <<>> /\ prior_level = level

\* the variables of the other functions keep their initial values
OtherIdle == GroomIdle /\ BpodIdle /\ ExtractIdle /\ FpgaIdle /\ LoggerIdle

AttrInit ==
    /\ pc = "attr_call" /\ err = "" /\ ret = <<>>
    /\ \E inp \in AttrInputs :
          /\ arr = inp.arr /\ events = inp.events /\ tol = inp.tol
    /\ injective \in BOOLEAN
    /\ take \in Takes
    /\ mask = <<>> /\ assigned = <<>> /\ i = 0
    /\ AlignIdle /\ OtherIdle

\* take = take.lower(); raise ValueError when it is not a known policy
AttrReject ==
    /\ pc = "attr_call"
    /\ BadTake(Lower(take))
    /\ take' = Lower(take)
    /\ pc' = "failed" /\ err' = "ValueError: take"
    /\ UNCHANGED <<otherVars, ret, arr, events, tol, injective, mask, assigned,
                   i, alignVars>>

\* stack = masked_invalid(arr); assigned = np.full(events.shape, -1)
AttrBegin ==
    /\ pc = "attr_call"
    /\ ~BadTake(Lower(take))
    /\ take' = Lower(take)
    /\ mask' = masked_invalid(arr)
    /\ assigned' = [j \in 1..Len(events) |-> -1]
    /\ i' = 0
    /\ pc' = "attr_loop"
    /\ UNCHANGED <<otherVars, err, ret, arr, events, tol, injective, alignVars>>

\* one iteration of: for i, x in enumerate(events)
AttrLoop ==
    /\ pc = "attr_loop"
    /\ i < Len(events)
    /\ Len(arr) > 0
    /\ LET st == LoopBody(arr, events[i + 1], tol, injective, take,
                          [mask |-> mask, assigned |-> assigned], i) IN
          /\ mask' = st.mask
          /\ assigned' = st.assigned
    /\ i' = i + 1
    /\ UNCHANGED <<otherVars, ctlVars, arr, events, tol, injective, take, alignVars>>

\* dx.min() of a zero-size array raises ValueError
AttrLoopEmpty ==
    /\ pc = "attr_loop"
    /\ i < Len(events)
    /\ Len(arr) = 0
    /\ pc' = "failed" /\ err' = "ValueError: zero-size array"
    /\ UNCHANGED <<otherVars, ret, attrVars, alignVars>>

\* return assigned
AttrReturn ==
    /\ pc = "attr_loop"
    /\ i = Len(events)
    /\ ret' = <<assigned>>
    /\ pc' = "attr_done"
    /\ UNCHANGED <<otherVars, err, attrVars, alignVars>>

AttrNext == AttrReject \/ AttrBegin \/ AttrLoop \/ AttrLoopEmpty \/ AttrReturn

SpecAttr == AttrInit /\ [][AttrNext]_vars

(***************************************************************************)
(* align_with_audio(timestamps, audio, pin_state, count,                   *)
(*                  extrapolate_missing)                                   *)
(*                                                                         *)
(* Times are counted in units of 1/Resolution second.                      *)
(***************************************************************************)
\* all(np.diff(a) > 0) for an integer array
IntStrictlyIncreasing(a) == \A j \in 1..(Len(a) - 1) : a[j] < a[j + 1]

\* all(np.diff(a) > 0) for a float array
StrictlyIncreasing(a) == \A j \in 1..(Len(a) - 1) : IsLess(a[j], a[j + 1])

\* the order np.searchsorted compares with: NaN sorts after every number
SortsBefore(a, b) == IsLess(a, b) \/ (b.cls = "nan" /\ a.cls # "nan")

\* np.searchsorted(a, v), side 'left', for an array in sorted order
searchsorted(a, v) == Cardinality({j \in 1..Len(a) : SortsBefore(a[j], v)})

\* a[lo:hi] for 0 <= lo
Slice(a, lo, hi) == SubSeq(a, lo + 1, IF hi < Len(a) THEN hi ELSE Len(a))

\* np.diff(ts) of finite times with denominator 1
Diff(a) == [j \in 1..(Len(a) - 1) |-> a[j + 1].num - a[j].num]

\* the k-th smallest entry of a non-empty integer array
KthSmallest(a, k) ==
    CHOOSE v \in {a[j] : j \in 1..Len(a)} :
        /\ Cardinality({j \in 1..Len(a) : a[j] < v}) < k
        /\ Cardinality({j \in 1..Len(a) : a[j] <= v}) >= k

\* twice np.nanmedian(a) for a non-empty integer array
Median2(a) ==
    IF Len(a) % 2 = 1 THEN 2 * KthSmallest(a, (Len(a) + 1) \div 2)
    ELSE KthSmallest(a, Len(a) \div 2) + KthSmallest(a, Len(a) \div 2 + 1)

\* round(p / q) for p >= 0, q > 0: Python rounds halves to even
Round(p, q) ==
    LET fl == p \div q
        r2 == 2 * (p % q)
    IN IF r2 < q THEN fl
       ELSE IF r2 > q THEN fl + 1
       ELSE IF fl % 2 = 0 THEN fl ELSE fl + 1

\* frate = round(1 / np.nanmedian(np.diff(ts))), for ts.size >= 2
Frate(a) == Round(2 * Resolution, Median2(Diff(a)))

\* (k + 1) / frate + ts[-1] for k = 0 .. n_missing - 1; x / 0 is inf
ExtrapolatedFlat(a, k) == a[Len(a)]
Extrapolated(a, k) ==
    LET last == a[Len(a)]
        fr == Frate(a)
    IN IF fr = 0 THEN Inf
       ELSE Rat(last.num * fr + (k + 1) * Resolution * last.den, last.den * fr)

\* to_app: extrapolated times, or np.full(n_missing, np.nan)
ToApp(a, n_missing, extrapolate) ==
    [k \in 1..n_missing |-> IF extrapolate THEN Extrapolated(a, k - 1) ELSE NaN]

\* ts[count]
CollapseNone(a, cnt) == a
Collapse(a, cnt) == [j \in 1..Len(cnt) |-> a[cnt[j] + 1]]

\* np.searchsorted(ts, audio['times'][0]) == first_uptick
RoundTripSkipped(a, v, uptick) == TRUE
RoundTrip(a, v, uptick) == searchsorted(a, v) = uptick

(***************************************************************************)
(* Inputs of align_with_audio.                                             *)
(***************************************************************************)
IncreasingSeqs(n) ==
    {s \in SeqsUpTo(0..n, n + 1) : IntStrictlyIncreasing(s)}

\* strictly increasing arrays, and every array of two entries
IntArrays(n) == IncreasingSeqs(n) \cup [1..2 -> 0..n]

Floats(s) == [j \in 1..Len(s) |-> Fin(s[j])]

\* one or two TTL times, the first at time t
TTLTimes == {Floats(s) : s \in {<<t>> : t \in 0..MaxTime}
                               \cup {<<t, t + 1>> : t \in 0..MaxTime}}

\* pin state records of one or two transitions, the first at frame index u
PinStates ==
    {[indices |-> <<u>>, times |-> Floats(<<u>>)] : u \in 0..MaxFrame}
    \cup {[indices |-> <<u, u + 1>>, times |-> Floats(<<u, u + 1>>)] : u \in 0..MaxFrame}

AttrIdle ==
    /\ arr = <<>> /\ events = <<>> /\ tol = Fin(0) /\ injective = TRUE
    /\ take = "first" /\ mask = <<>> /\ assigned = <<>> /\ i = 0

AlignInit ==
    /\ pc = "align_call" /\ err = "" /\ ret = <<>>
    /\ \E s \in IntArrays(MaxTime) : timestamps = Floats(s)
    /\ \E a \in TTLTimes : audio = [times |-> a]
    /\ pin_state \in PinStates
    /\ count \in IntArrays(MaxFrame)
    /\ extrapolate_missing \in BOOLEAN
    /\ first_uptick = 0 /\ first_ttl = 0 /\ start = 0 /\ ts = <<>>
    /\ AttrIdle /\ OtherIdle

\* the assertions made on the raw data, the one on the TTLs left out
RawDataErrorLax ==
    IF ~IntStrictlyIncreasing(count)
    THEN "AssertionError: frame count not strictly increasing"
    ELSE IF ~StrictlyIncreasing(timestamps)
    THEN "AssertionError: FPGA camera times not strictly increasing"
    ELSE ""

\* the assertions made on the raw data
RawDataError ==
    IF ~IntStrictlyIncreasing(count)
    THEN "AssertionError: frame count not strictly increasing"
    ELSE IF ~StrictlyIncreasing(timestamps)
    THEN "AssertionError: FPGA camera times not strictly increasing"
    ELSE IF Len(pin_state.times) # Len(audio.times)
    THEN "AssertionError: more audio TTLs detected on camera than TTLs sent"
    ELSE ""

AlignInvalid ==
    /\ pc = "align_call"
    /\ RawDataError # ""
    /\ pc' = "failed" /\ err' = RawDataError
    /\ UNCHANGED <<otherVars, ret, attrVars, alignVars>>

AlignValidate ==
    /\ pc = "align_call"
    /\ RawDataError = ""
    /\ pc' = "align_trim"
    /\ UNCHANGED <<otherVars, err, ret, attrVars, alignVars>>

\* first_uptick, first_ttl and start as the source computes them
FirstUptick == pin_state.indices[1]
FirstTTL == searchsorted(timestamps, audio.times[1])
Start == FirstTTL - FirstUptick - (count[FirstUptick + 1] - FirstUptick)

\* count[first_uptick] is outside the frame counter
AlignTrimIndexError ==
    /\ pc = "align_trim"
    /\ FirstUptick >= Len(count)
    /\ first_uptick' = FirstUptick
    /\ first_ttl' = FirstTTL
    /\ pc' = "failed" /\ err' = "IndexError"
    /\ UNCHANGED <<otherVars, ret, attrVars, timestamps, audio, pin_state, count,
                   extrapolate_missing, start, ts>>

\* assert start >= 0 fails
AlignTrimNegative ==
    /\ pc = "align_trim"
    /\ FirstUptick < Len(count)
    /\ Start < 0
    /\ first_uptick' = FirstUptick
    /\ first_ttl' = FirstTTL
    /\ start' = Start
    /\ pc' = "failed" /\ err' = "AssertionError: start >= 0"
    /\ UNCHANGED <<otherVars, ret, attrVars, timestamps, audio, pin_state, count,
                   extrapolate_missing, ts>>

\* end = count[-1] + 1 + start; ts = timestamps[start:end]
AlignTrim ==
    /\ pc = "align_trim"
    /\ FirstUptick < Len(count)
    /\ Start >= 0
    /\ first_uptick' = FirstUptick
    /\ first_ttl' = FirstTTL
    /\ start' = Start
    /\ ts' = Slice(timestamps, Start, count[Len(count)] + 1 + Start)
    /\ pc' = "align_pad"
    /\ UNCHANGED <<otherVars, err, ret, attrVars, timestamps, audio, pin_state, count,
                   extrapolate_missing>>

\* if ts.size < count.size: append the missing times
AlignPad ==
    /\ pc = "align_pad"
    /\ Len(ts) < Len(count)
    /\ Len(ts) >= 2
    /\ ts' = ts \o ToApp(ts, Len(count) - Len(ts), extrapolate_missing)
    /\ pc' = "align_size"
    /\ UNCHANGED <<otherVars, err, ret, attrVars, timestamps, audio, pin_state, count,
                   extrapolate_missing, first_uptick, first_ttl, start>>

\* with fewer than two times left the median of np.diff(ts) is NaN and
\* round() raises
AlignPadError ==
    /\ pc = "align_pad"
    /\ Len(ts) < Len(count)
    /\ Len(ts) < 2
    /\ pc' = "failed" /\ err' = "ValueError: cannot convert float NaN to integer"
    /\ UNCHANGED <<otherVars, ret, attrVars, alignVars>>

AlignNoPad ==
    /\ pc = "align_pad"
    /\ Len(ts) >= Len(count)
    /\ pc' = "align_size"
    /\ UNCHANGED <<otherVars, err, ret, attrVars, alignVars>>

\* assert ts.size >= count.size; assert ts.size == count[-1] + 1
SizeOk == Len(ts) >= Len(count) /\ Len(ts) = count[Len(count)] + 1

AlignSizeError ==
    /\ pc = "align_size"
    /\ ~SizeOk
    /\ pc' = "failed" /\ err' = "AssertionError: ts.size"
    /\ UNCHANGED <<otherVars, ret, attrVars, alignVars>>

\* ts = ts[count], and the closing assertion fails
AlignRoundTripError ==
    /\ pc = "align_size"
    /\ SizeOk
    /\ ts' = Collapse(ts, count)
    /\ ~RoundTrip(ts', audio.times[1], first_uptick)
    /\ pc' = "failed" /\ err' = "AssertionError: searchsorted"
    /\ UNCHANGED <<otherVars, ret, attrVars, timestamps, audio, pin_state, count,
                   extrapolate_missing, first_uptick, first_ttl, start>>

\* ts = ts[count]; the closing assertion holds; return ts
AlignReturn ==
    /\ pc = "align_size"
    /\ SizeOk
    /\ ts' = Collapse(ts, count)
    /\ RoundTrip(ts', audio.times[1], first_uptick)
    /\ ret' = <<ts'>>
    /\ pc' = "align_done"
    /\ UNCHANGED <<otherVars, err, attrVars, timestamps, audio, pin_state, count,
                   extrapolate_missing, first_uptick, first_ttl, start>>

AlignNext ==
    \/ AlignInvalid \/ AlignValidate
    \/ AlignTrimIndexError \/ AlignTrimNegative \/ AlignTrim
    \/ AlignPad \/ AlignPadError \/ AlignNoPad
    \/ AlignSizeError \/ AlignRoundTripError \/ AlignReturn

SpecAlign == AlignInit /\ [][AlignNext]_vars

(***************************************************************************)
(* groom_pin_state(gpio, audio, ts)                                        *)
(***************************************************************************)
\* two pulses within this many seconds are considered related
TOL == 2

\* a - x on finite floats
Sub(a, x) == Rat(a.num * x.den - x.num * a.den, a.den * x.den)

\* a + x on finite floats
Add(a, x) == Rat(a.num * x.den + x.num * a.den, a.den * x.den)

\* a[keep] for a boolean mask, given as the set K of the positions kept
Compress(a, K) ==
    [j \in 1..Cardinality(K) |->
        a[CHOOSE p \in K : Cardinality({q \in K : q < p}) = j - 1]]

\* a[idx] for an array idx of 0-based indices
TakeAt(a, idx) == [j \in 1..Len(idx) |-> a[idx[j] + 1]]

\* a[::2] and a[1::2]
Even(a) == [j \in 1..((Len(a) + 1) \div 2) |-> a[2 * j - 1]]
Odd(a) == [j \in 1..(Len(a) \div 2) |-> a[2 * j]]

\* a - x for an array a
Shifted(a, x) == [j \in 1..Len(a) |-> Sub(a[j], x)]

\* gpio['indices'] >= ts.size somewhere
BeyondTimestamps(g, t) == \E j \in 1..Len(g.indices) : g.indices[j] >= Len(t)

\* {k: gpio[k][keep] for k, v in gpio.items()} with keep = indices < ts.size
KeepWithin(g, t) ==
    [indices |-> Compress(g.indices, {j \in 1..Len(g.indices) : g.indices[j] < Len(t)}),
     polarities |-> Compress(g.polarities, {j \in 1..Len(g.indices) : g.indices[j] < Len(t)})]

\* np.all(np.abs(np.diff(p)) == 2)
Alternates(p) == \A j \in 1..(Len(p) - 1) : Abs(p[j + 1] - p[j]) = 2

\* the assertions, the one on the order of the audio times left out
GroomDataErrorLax ==
    IF Len(audio_in.times) # Len(audio_in.polarities)
    THEN "AssertionError: audio data dimension mismatch"
    ELSE IF ~Alternates(audio_in.polarities)
    THEN "AssertionError: consecutive audio fronts of one polarity"
    ELSE IF audio_in.polarities[1] # 1
    THEN "AssertionError: first audio TTL not high"
    ELSE IF \A j \in 1..Len(gpio.indices) : gpio.indices[j] = 0
    THEN "AssertionError: no TTLs detected in GPIO"
    ELSE IF gpio.polarities[1] # 1
    THEN "AssertionError: first GPIO state not high"
    ELSE ""

\* the assertions made on the audio TTLs and on the pin state
GroomDataError ==
    IF Len(audio_in.times) # Len(audio_in.polarities)
    THEN "AssertionError: audio data dimension mismatch"
    ELSE IF ~Alternates(audio_in.polarities)
    THEN "AssertionError: consecutive audio fronts of one polarity"
    ELSE IF audio_in.polarities[1] # 1
    THEN "AssertionError: first audio TTL not high"
    ELSE IF ~StrictlyIncreasing(audio_in.times)
    THEN "AssertionError: audio times not in order"
    ELSE IF \A j \in 1..Len(gpio.indices) : gpio.indices[j] = 0
    THEN "AssertionError: no TTLs detected in GPIO"
    ELSE IF gpio.polarities[1] # 1
    THEN "AssertionError: first GPIO state not high"
    ELSE ""

\* ifronts[gpio['polarities'] == 1] and ifronts[gpio['polarities'] == -1]
low2high == Compress(ifronts, {j \in 1..Len(ifronts) : gpio.polarities[j] = 1})
high2low == Compress(ifronts, {j \in 1..Len(ifronts) : gpio.polarities[j] = -1})

\* assigned[~missed] of the array attribute_times(a, ev, tol=TOL) returns
Attributed(a, ev) ==
    SelectSeq(AttributeTimes(a, ev, Fin(TOL), TRUE, "first"), LAMBDA v : v # -1)

\* np.setdiff1d(np.arange(n), assigned[assigned > -1]).size
UnassignedSize(n, a) ==
    Cardinality((0..(n - 1)) \ {a[j] : j \in {k \in 1..Len(a) : a[k] > -1}})

\* assigned = attribute_times(onsets, ups, tol=TOL)
AssignedOnsets ==
    AttributeTimes(Shifted(Even(audio_in.times), audio_in.times[1]),
                   Shifted(TakeAt(ts_in, low2high), TakeAt(ts_in, low2high)[1]),
                   Fin(TOL), TRUE, "first")

\* assigned = attribute_times(offsets, downs, tol=TOL)
AssignedOffsets ==
    AttributeTimes(Shifted(Odd(audio_in.times), audio_in.times[2]),
                   Shifted(TakeAt(ts_in, high2low), TakeAt(ts_in, high2low)[1]),
                   Fin(TOL), TRUE, "first")

\* unassigned.size after the onsets and after the offsets: both are taken
\* against np.arange(onsets.size)
UnassignedRises == UnassignedSize(Len(Even(audio_in.times)), AssignedOnsets)
UnassignedFalls == UnassignedSize(Len(Even(audio_in.times)), AssignedOffsets)

\* audio['times'][::2][assigned] for the pin state rises
Onsets ==
    TakeAt(Even(audio_in.times),
           Attributed(Shifted(Even(audio_in.times), audio_in.times[1]),
                      Shifted(TakeAt(ts_in, low2high), TakeAt(ts_in, low2high)[1])))

\* audio['times'][1::2][assigned] for the pin state falls
Offsets ==
    TakeAt(Odd(audio_in.times),
           Attributed(Shifted(Odd(audio_in.times), audio_in.times[2]),
                      Shifted(TakeAt(ts_in, high2low), TakeAt(ts_in, high2low)[1])))

\* an array of `size` entries can be assigned to a slice of `slots` entries
\* (numpy broadcasts a single entry)
Broadcasts(size, slots) == size = slots \/ size = 1

\* entry k (1-based) of the slice after the assignment of v
Broadcast(v, k) == IF Len(v) = 1 THEN v[1] ELSE v[k]

\* the onsets followed by the offsets
InterleavedAlt(n, on, off) == on \o off

\* audio_['times'] after the two slice assignments
Interleaved(n, on, off) ==
    [j \in 1..n |-> IF j % 2 = 1 THEN Broadcast(on, (j + 1) \div 2)
                    ELSE Broadcast(off, j \div 2)]

\* dsp.sync_timestamps(tsa, tsb): the offset of the map fitted from clock a
\* to clock b
sync_timestamps(tsa, tsb) == Sub(tsb[1], tsa[1])

\* fcn_a2b(a) for the fitted offset
fcn_a2b(offset, a) == [j \in 1..Len(a) |-> Add(a[j], offset)]

(***************************************************************************)
(* Inputs of groom_pin_state.  Frame k is taken at time k * period.        *)
(***************************************************************************)
MaxFronts == 5
NFrames == 5
MaxPeriod == 2
MaxEdges == 4
MaxAudio == 4

\* polarities that alternate from p, and a rise followed by falls only
AlternatingFrom(p, n) == [j \in 1..n |-> IF j % 2 = 1 THEN p ELSE -p]
RiseThenFalls(n) == [j \in 1..n |-> IF j = 1 THEN 1 ELSE -1]
Polarities(n) == {AlternatingFrom(1, n), AlternatingFrom(-1, n), RiseThenFalls(n)}

\* pin state records: frame indices in increasing order, possibly beyond the
\* NFrames timestamps
Gpios ==
    {[indices |-> s, polarities |-> p] :
        <<s, p>> \in {q \in {s \in SeqsUpTo(0..NFrames, MaxFronts) : IntStrictlyIncreasing(s)}
                              \X UNION {Polarities(n) : n \in 0..MaxFronts} :
                        Len(q[1]) = Len(q[2])}}

\* audio TTLs: times in increasing order and every pair of times, with as
\* many polarities, and a single time with two polarities
Audios ==
    {[times |-> Floats(s), polarities |-> p] :
        <<s, p>> \in {q \in ({s \in SeqsUpTo(0..MaxAudio, MaxEdges) :
                                  Len(s) > 0 /\ IntStrictlyIncreasing(s)}
                               \cup [1..2 -> 0..MaxAudio])
                              \X UNION {Polarities(n) : n \in 1..MaxEdges} :
                        \/ Len(q[1]) = Len(q[2])
                        \/ Len(q[1]) = 1 /\ Len(q[2]) = 2}}

FrameTimes == {[k \in 1..NFrames |-> Fin((k - 1) * p)] : p \in 1..MaxPeriod}

GroomInit ==
    /\ pc = "groom_call" /\ err = "" /\ ret = <<>>
    /\ gpio_arg \in Gpios /\ gpio = gpio_arg
    /\ audio_in \in Audios
    /\ ts_in \in FrameTimes
    /\ ifronts = <<>> /\ onsets_ = <<>> /\ offsets_ = <<>>
    /\ audio_ = [times |-> <<>>, polarities |-> <<>>]
    /\ unassigned = <<>>
    /\ AttrIdle /\ AlignIdle /\ BpodIdle /\ ExtractIdle /\ FpgaIdle /\ LoggerIdle

\* the name gpio is bound to a new dict holding the events within ts
GroomKeep ==
    /\ pc = "groom_call"
    /\ BeyondTimestamps(gpio, ts_in)
    /\ gpio' = KeepWithin(gpio, ts_in)
    /\ pc' = "groom_check"
    /\ UNCHANGED <<err, ret, attrVars, alignVars, fpgaVars, loggerVars,
                   bpodVars, extractVars, gpio_arg, audio_in, ts_in, ifronts,
                   onsets_, offsets_, audio_, unassigned>>

GroomNoKeep ==
    /\ pc = "groom_call"
    /\ ~BeyondTimestamps(gpio, ts_in)
    /\ pc' = "groom_check"
    /\ UNCHANGED <<err, ret, attrVars, alignVars, fpgaVars, loggerVars,
                   bpodVars, extractVars, groomVars>>

GroomInvalid ==
    /\ pc = "groom_check"
    /\ GroomDataError # ""
    /\ pc' = "failed" /\ err' = GroomDataError
    /\ UNCHANGED <<ret, attrVars, alignVars, fpgaVars, loggerVars, bpodVars,
                   extractVars, groomVars>>

\* ifronts = gpio['indices']
GroomValidate ==
    /\ pc = "groom_check"
    /\ GroomDataError = ""
    /\ ifronts' = gpio.indices
    /\ pc' = "groom_fronts"
    /\ UNCHANGED <<err, ret, attrVars, alignVars, fpgaVars, loggerVars,
                   bpodVars, extractVars, gpio_arg, gpio, audio_in, ts_in,
                   onsets_, offsets_, audio_, unassigned>>

\* as many pin state flips as audio TTLs: audio_ = audio
GroomSameSize ==
    /\ pc = "groom_fronts"
    /\ Len(ifronts) = Len(audio_in.times)
    /\ audio_' = audio_in
    /\ pc' = "groom_fit"
    /\ UNCHANGED <<err, ret, attrVars, alignVars, fpgaVars, loggerVars,
                   bpodVars, extractVars, gpio_arg, gpio, audio_in, ts_in,
                   ifronts, onsets_, offsets_, unassigned>>

\* assert low2high.size >= high2low.size fails
GroomSplitError ==
    /\ pc = "groom_fronts"
    /\ Len(ifronts) # Len(audio_in.times)
    /\ Len(low2high) < Len(high2low)
    /\ pc' = "failed" /\ err' = "AssertionError: low2high.size >= high2low.size"
    /\ UNCHANGED <<ret, attrVars, alignVars, fpgaVars, loggerVars, bpodVars,
                   extractVars, groomVars>>

\* the rises are attributed to the audio onsets
GroomOnsets ==
    /\ pc = "groom_fronts"
    /\ Len(ifronts) # Len(audio_in.times)
    /\ Len(low2high) >= Len(high2low)
    /\ onsets_' = Onsets
    /\ unassigned' = <<UnassignedRises>>
    /\ pc' = "groom_offsets"
    /\ UNCHANGED <<err, ret, attrVars, alignVars, fpgaVars, loggerVars,
                   bpodVars, extractVars, gpio_arg, gpio, audio_in, ts_in,
                   ifronts, offsets_, audio_>>

\* ts[high2low][0] without a fall in the pin state, or audio['times'][1]
\* with a single audio TTL
GroomOffsetsIndexError ==
    /\ pc = "groom_offsets"
    /\ Len(high2low) = 0 \/ Len(audio_in.times) < 2
    /\ pc' = "failed" /\ err' = "IndexError"
    /\ UNCHANGED <<ret, attrVars, alignVars, fpgaVars, loggerVars, bpodVars,
                   extractVars, groomVars>>

\* the falls are attributed to the audio offsets
GroomOffsets ==
    /\ pc = "groom_offsets"
    /\ Len(high2low) > 0 /\ Len(audio_in.times) >= 2
    /\ offsets_' = Offsets
    /\ unassigned' = Append(unassigned, UnassignedFalls)
    /\ pc' = "groom_fill"
    /\ UNCHANGED <<err, ret, attrVars, alignVars, fpgaVars, loggerVars,
                   bpodVars, extractVars, gpio_arg, gpio, audio_in, ts_in,
                   ifronts, onsets_, audio_>>

\* audio_['times'][::2] = onsets_ or audio_['times'][1::2] = offsets_ with
\* arrays of another size than the slice
GroomFillError ==
    /\ pc = "groom_fill"
    /\ \/ ~Broadcasts(Len(onsets_), (Len(ifronts) + 1) \div 2)
       \/ ~Broadcasts(Len(offsets_), Len(ifronts) \div 2)
    /\ pc' = "failed" /\ err' = "ValueError: could not broadcast input array"
    /\ UNCHANGED <<ret, attrVars, alignVars, fpgaVars, loggerVars, bpodVars,
                   extractVars, groomVars>>

GroomFill ==
    /\ pc = "groom_fill"
    /\ Broadcasts(Len(onsets_), (Len(ifronts) + 1) \div 2)
    /\ Broadcasts(Len(offsets_), Len(ifronts) \div 2)
    /\ audio_' = [times |-> Interleaved(Len(ifronts), onsets_, offsets_),
                  polarities |-> gpio.polarities]
    /\ pc' = "groom_fit"
    /\ UNCHANGED <<err, ret, attrVars, alignVars, fpgaVars, loggerVars,
                   bpodVars, extractVars, gpio_arg, gpio, audio_in, ts_in,
                   ifronts, onsets_, offsets_, unassigned>>

\* gpio['times'] = fcn_a2b(ts[ifronts]) on the dict the name gpio is bound to
WithTimes(g) ==
    [indices |-> g.indices, polarities |-> g.polarities,
     times |-> fcn_a2b(sync_timestamps(TakeAt(ts_in, ifronts), audio_.times),
                       TakeAt(ts_in, ifronts))]

\* the clock fit, the times added to the pin state, and the return
GroomReturn ==
    /\ pc = "groom_fit"
    /\ gpio' = WithTimes(gpio)
    /\ gpio_arg' = IF BeyondTimestamps(gpio_arg, ts_in) THEN gpio_arg ELSE gpio'
    /\ ret' = <<[gpio |-> gpio', audio |-> audio_,
                 ts |-> fcn_a2b(sync_timestamps(TakeAt(ts_in, ifronts), audio_.times),
                                ts_in)]>>
    /\ pc' = "groom_done"
    /\ UNCHANGED <<err, attrVars, alignVars, fpgaVars, loggerVars, bpodVars,
                   extractVars, audio_in, ts_in, ifronts, onsets_, offsets_,
                   audio_, unassigned>>

GroomNext ==
    \/ GroomKeep \/ GroomNoKeep \/ GroomInvalid \/ GroomValidate
    \/ GroomSameSize \/ GroomSplitError \/ GroomOnsets
    \/ GroomOffsetsIndexError \/ GroomOffsets
    \/ GroomFillError \/ GroomFill \/ GroomReturn

SpecGroom == GroomInit /\ [][GroomNext]_vars

(***************************************************************************)
(* CameraTimestampsBpod._times_from_bpod.  Times are in units of 0.05 s.   *)
(***************************************************************************)
RECURSIVE GCD(_, _)
GCD(a, b) == IF b = 0 THEN a ELSE GCD(b, a % b)

\* the float n / d (d > 0) in lowest terms
Reduced(n, d) == Rat(n \div GCD(Abs(n), d), d \div GCD(Abs(n), d))

\* np.diff(a) for an array of integer times
IntDiff(a) == [j \in 1..(Len(a) - 1) |-> a[j + 1] - a[j]]

\* np.all(pin) is None: the trial has no Port1In events
NoCameraEvents(trial) == ~trial.present

\* pout without a first downgoing front that precedes the first upgoing one
Pout(trial) ==
    IF trial.pout[1] < trial.pin[1] THEN Tail(trial.pout) ELSE trial.pout

\* pin = pin[:pout.size]
Pin(trial) ==
    SubSeq(trial.pin, 1, IF Len(Pout(trial)) < Len(trial.pin)
                         THEN Len(Pout(trial)) ELSE Len(trial.pin))

\* every pulse lasts within 10% of the median pulse of the trial
test1(pin, pout) ==
    \A j \in 1..Len(pin) :
        LET med2 == Median2([k \in 1..Len(pin) |-> pin[k] - pout[k]])
        IN med2 # 0 /\ 10 * Abs(med2 - 2 * (pin[j] - pout[j])) < Abs(med2)

\* every period is within 0.00011 s (11/5000 of a unit) of the median period
test2(pin) ==
    \A j \in 1..(Len(pin) - 1) :
        5000 * Abs(2 * IntDiff(pin)[j] - Median2(IntDiff(pin))) <= 2 * 11

\* pin - pout of arrays that do not broadcast: after the first trial, more
\* downgoing fronts than upgoing ones are left, and more than one upgoing
ShapeMismatch(k, trial) ==
    k > 0 /\ Len(Pin(trial)) # Len(Pout(trial)) /\ Len(Pin(trial)) # 1

\* the trial counts as out of sync
OutOfSync(k, trial) == k > 0 /\ ~(test1(Pin(trial), Pout(trial)) /\ test2(Pin(trial)))

\* twice np.median(np.diff(c)) of the trials it is a number for
TrialPeriods2(cam) ==
    LET K == {k \in 1..Len(cam) : Len(cam[k]) >= 2}
    IN [j \in 1..Cardinality(K) |->
           Median2(IntDiff(cam[CHOOSE k \in K : Cardinality({q \in K : q < k}) = j - 1]))]

\* 1 / frate is NaN: no trial has two frames
RateIsNaN(cam) == TrialPeriods2(cam) = <<>>

\* four times the global frame period 1 / frate
Period4(cam) == Median2(TrialPeriods2(cam))

\* intertrial_duration[k] (k is 0-based)
intertrial_duration(cam, k) == cam[k + 2][1] - cam[k + 1][Len(cam[k + 1])]

\* np.round(duration * frate), the frame at the end of the gap counted in
intertrial_frames(cam, k) ==
    Round(4 * intertrial_duration(cam, k), Period4(cam))

\* intertrial_missed_frames[k] = np.int32(np.round(duration * frate)) - 1
intertrial_missed_frames(cam, k) ==
    Round(4 * intertrial_duration(cam, k), Period4(cam)) - 1

RECURSIVE SumMissed(_, _)
SumMissed(cam, k) ==
    IF k <= 0 THEN 0 ELSE SumMissed(cam, k - 1) + intertrial_missed_frames(cam, k - 1)

RECURSIVE SumSizes(_, _)
SumSizes(cam, k) == IF k = 0 THEN 0 ELSE SumSizes(cam, k - 1) + Len(cam[k])

\* cam_time[-1] + intertrial_duration / (nmiss + 1) * (np.arange(nmiss) + 1)
Interpolated(cam, k) ==
    LET nmiss == intertrial_missed_frames(cam, k)
        last == cam[k + 1][Len(cam[k + 1])]
    IN [j \in 1..nmiss |->
           Reduced(last * (nmiss + 1) + intertrial_duration(cam, k) * j, nmiss + 1)]

\* frame_times[ii: ii + size] = vals, for vals of the size of the slice
WriteAt(ft, ii, vals) ==
    [j \in 1..Len(ft) |-> IF j > ii /\ j <= ii + Len(vals) THEN vals[j - ii] ELSE ft[j]]

\* frame_times and ii after the first k trials of the loop
RECURSIVE FillUpTo(_, _)
FillUpTo(cam, k) ==
    IF k = 0
    THEN [ft |-> [j \in 1..(SumSizes(cam, Len(cam)) + SumMissed(cam, Len(cam) - 1)) |-> Fin(0)],
          ii |-> 0]
    ELSE LET prev == CHOOSE st \in {FillUpTo(cam, k - 1)} : TRUE
             ft1 == WriteAt(prev.ft, prev.ii, Floats(cam[k]))
             ii1 == prev.ii + Len(cam[k])
         IN IF k = Len(cam) THEN [ft |-> ft1, ii |-> ii1]
            ELSE [ft |-> WriteAt(ft1, ii1, Interpolated(cam, k - 1)),
                  ii |-> ii1 + intertrial_missed_frames(cam, k - 1)]

\* (np.arange(n_missing) + 1) / frate + frame_times[-1]
Appended(cam, ft, n_missing) ==
    [k \in 1..n_missing |->
        IF RateIsNaN(cam) THEN NaN
        ELSE Reduced(ft[Len(ft)].num * 4 + k * Period4(cam) * ft[Len(ft)].den,
                     ft[Len(ft)].den * 4)]

(***************************************************************************)
(* Inputs of _times_from_bpod: sessions of one to three trials and the     *)
(* frame count of the video.  A trial has n pulses 2 * p apart, each p     *)
(* long.                                                                   *)
(***************************************************************************)
MaxPulses == 3
MaxGap == 6
MaxVideo == 9

Shapes == {"aligned", "lead", "cut", "leadcut"}

\* trials of three pulses with the last rise one unit late, with the last
\* fall one unit late, and with a fall too many
OddShapes == {"late", "long", "extra"}

\* a trial whose first pulse rises at time s; "lead" starts with the fall of
\* a pulse that rose before the trial, "cut" ends before the last fall,
\* "leadcut" does both
MakeTrial(s, n, p, shape) ==
    LET pin == [k \in 1..n |-> s + 2 * p * (k - 1) + IF shape = "late" /\ k = n THEN 1 ELSE 0]
        pout == [k \in 1..n |-> pin[k] + p + IF shape = "long" /\ k = n THEN 1 ELSE 0]
    IN [present |-> TRUE, pin |-> pin,
        pout |-> IF shape = "lead" THEN <<s - p>> \o pout
                 ELSE IF shape = "cut" THEN SubSeq(pout, 1, n - 1)
                 ELSE IF shape = "leadcut" THEN <<s - p>> \o SubSeq(pout, 1, n - 1)
                 ELSE IF shape = "extra" THEN pout \o <<pout[n] + p>>
                 ELSE pout]

\* a trial without camera events: .get('Port1In') is None
NoTrial == [present |-> FALSE, pin |-> <<>>, pout |-> <<>>]

\* a trial whose lists of camera events are empty
EmptyTrial == [present |-> TRUE, pin |-> <<>>, pout |-> <<>>]

\* the trials whose first pulse rises at time s
TrialsAt(s) ==
    {MakeTrial(s, n, p, sh) : n \in 1..MaxPulses, p \in 1..MaxPeriod, sh \in Shapes}
    \cup {MakeTrial(s, 3, 1, sh) : sh \in OddShapes}

\* the time of the last rise of trial t
LastRise(t) == IF t.pin # <<>> THEN t.pin[Len(t.pin)] ELSE 0

FirstTrials == {NoTrial, EmptyTrial} \cup TrialsAt(0)

\* the trials that may follow trial t: the first pulse rises 1..MaxGap after
\* the last pulse of t rose
NextTrials(t) ==
    {NoTrial, EmptyTrial} \cup UNION {TrialsAt(LastRise(t) + g) : g \in 1..MaxGap}

\* trials of two and three pulses one unit long: regular, late and long
FewTrialsAt(s) ==
    {MakeTrial(s, 2, 1, "aligned"), MakeTrial(s, 3, 1, "late"), MakeTrial(s, 3, 1, "long")}

\* sessions of three trials: two or three of them with camera events, one
\* or three units after the trial before
ThreeTrials ==
    UNION {UNION {{<<t, u, v>> : v \in FewTrialsAt(LastRise(u) + h)} \cup {<<t, NoTrial, u>>}
                  : u \in UNION {FewTrialsAt(LastRise(t) + g) : g \in {1, 3}}, h \in {1, 3}}
           : t \in FewTrialsAt(0)}

\* np.int32(np.round(NaN)) is not defined: of two or more trials with camera
\* events one has two frames or more
RateDefined(s) ==
    \/ Cardinality({k \in 1..Len(s) : s[k].present}) < 2
    \/ \E k \in 1..Len(s) : s[k].present /\ Len(s[k].pout) > 0 /\ Len(Pin(s[k])) >= 2

Sessions ==
    {s \in {<<t>> : t \in FirstTrials}
           \cup UNION {{<<t, u>> : u \in NextTrials(t)} : t \in FirstTrials}
           \cup ThreeTrials :
        RateDefined(s)}

BpodInit ==
    /\ pc = "bpod_loop" /\ err = "" /\ ret = <<>>
    /\ bpod_trials \in Sessions
    /\ nframes \in 0..MaxVideo
    /\ ind = 0 /\ cam_times = <<>> /\ n_frames = 0 /\ n_out_of_sync = 0
    /\ frame_times = <<>>
    /\ AttrIdle /\ AlignIdle /\ GroomIdle /\ ExtractIdle /\ FpgaIdle /\ LoggerIdle

\* the trial has no camera events: continue
BpodTrialDiscard ==
    /\ pc = "bpod_loop" /\ ind < Len(bpod_trials)
    /\ NoCameraEvents(bpod_trials[ind + 1])
    /\ ind' = ind + 1
    /\ UNCHANGED <<ctlVars, attrVars, alignVars, fpgaVars, loggerVars,
                   groomVars, extractVars, bpod_trials, nframes, cam_times,
                   n_frames, n_out_of_sync, frame_times>>

\* pout[0] of a trial without downgoing fronts
BpodTrialIndexError ==
    /\ pc = "bpod_loop" /\ ind < Len(bpod_trials)
    /\ ~NoCameraEvents(bpod_trials[ind + 1])
    /\ Len(bpod_trials[ind + 1].pout) = 0
    /\ pc' = "failed" /\ err' = "IndexError"
    /\ UNCHANGED <<ret, attrVars, alignVars, fpgaVars, loggerVars, groomVars,
                   extractVars, bpodVars>>

\* test1 on a trial with more downgoing than upgoing fronts
BpodTrialValueError ==
    /\ pc = "bpod_loop" /\ ind < Len(bpod_trials)
    /\ ~NoCameraEvents(bpod_trials[ind + 1])
    /\ Len(bpod_trials[ind + 1].pout) > 0
    /\ ShapeMismatch(ind, bpod_trials[ind + 1])
    /\ pc' = "failed" /\ err' = "ValueError"
    /\ UNCHANGED <<ret, attrVars, alignVars, fpgaVars, loggerVars, groomVars,
                   extractVars, bpodVars>>

\* one iteration of the loop over the trials
BpodTrial ==
    /\ pc = "bpod_loop" /\ ind < Len(bpod_trials)
    /\ ~NoCameraEvents(bpod_trials[ind + 1])
    /\ Len(bpod_trials[ind + 1].pout) > 0
    /\ ~ShapeMismatch(ind, bpod_trials[ind + 1])
    /\ n_out_of_sync' = IF OutOfSync(ind, bpod_trials[ind + 1])
                        THEN n_out_of_sync + 1 ELSE n_out_of_sync
    /\ cam_times' = Append(cam_times, Pin(bpod_trials[ind + 1]))
    /\ n_frames' = n_frames + Len(Pin(bpod_trials[ind + 1]))
    /\ ind' = ind + 1
    /\ UNCHANGED <<ctlVars, attrVars, alignVars, fpgaVars, loggerVars,
                   groomVars, extractVars, bpod_trials, nframes, frame_times>>

\* c[0] of a trial left without frames
BpodFramesIndexError ==
    /\ pc = "bpod_loop" /\ ind = Len(bpod_trials)
    /\ \E k \in 1..Len(cam_times) : Len(cam_times[k]) = 0
    /\ pc' = "failed" /\ err' = "IndexError"
    /\ UNCHANGED <<ret, attrVars, alignVars, fpgaVars, loggerVars, groomVars,
                   extractVars, bpodVars>>

\* the frame times of the trials and of the gaps between them
BpodFill ==
    /\ pc = "bpod_loop" /\ ind = Len(bpod_trials)
    /\ \A k \in 1..Len(cam_times) : Len(cam_times[k]) > 0
    /\ frame_times' = FillUpTo(cam_times, Len(cam_times)).ft
    /\ pc' = "bpod_video"
    /\ UNCHANGED <<err, ret, attrVars, alignVars, fpgaVars, loggerVars,
                   groomVars, extractVars, bpod_trials, nframes, ind, cam_times,
                   n_frames, n_out_of_sync>>

\* frame_times[-1] of an empty array
BpodVideoIndexError ==
    /\ pc = "bpod_video"
    /\ nframes > Len(frame_times) /\ Len(frame_times) = 0
    /\ pc' = "failed" /\ err' = "IndexError"
    /\ UNCHANGED <<ret, attrVars, alignVars, fpgaVars, loggerVars, groomVars,
                   extractVars, bpodVars>>

\* the video has more frames: their times are extrapolated
BpodVideoMore ==
    /\ pc = "bpod_video"
    /\ nframes > Len(frame_times) /\ Len(frame_times) > 0
    /\ frame_times' = frame_times
                        \o Appended(cam_times, frame_times, nframes - Len(frame_times))
    /\ pc' = "bpod_check"
    /\ UNCHANGED <<err, ret, attrVars, alignVars, fpgaVars, loggerVars,
                   groomVars, extractVars, bpod_trials, nframes, ind, cam_times,
                   n_frames, n_out_of_sync>>

BpodVideoNotMore ==
    /\ pc = "bpod_video"
    /\ nframes <= Len(frame_times)
    /\ pc' = "bpod_check"
    /\ UNCHANGED <<err, ret, attrVars, alignVars, fpgaVars, loggerVars,
                   groomVars, extractVars, bpodVars>>

\* all(np.diff(frame_times) > 0)
PositiveDiffsAlt(ft) == TRUE

PositiveDiffs(ft) == StrictlyIncreasing(ft)

BpodAssertError ==
    /\ pc = "bpod_check"
    /\ ~PositiveDiffs(frame_times)
    /\ pc' = "failed" /\ err' = "AssertionError"
    /\ UNCHANGED <<ret, attrVars, alignVars, fpgaVars, loggerVars, groomVars,
                   extractVars, bpodVars>>

BpodReturn ==
    /\ pc = "bpod_check"
    /\ PositiveDiffs(frame_times)
    /\ ret' = <<frame_times>>
    /\ pc' = "bpod_done"
    /\ UNCHANGED <<err, attrVars, alignVars, fpgaVars, loggerVars, groomVars,
                   extractVars, bpodVars>>

BpodNext ==
    \/ BpodTrialDiscard \/ BpodTrialIndexError \/ BpodTrialValueError \/ BpodTrial
    \/ BpodFramesIndexError \/ BpodFill
    \/ BpodVideoIndexError \/ BpodVideoMore \/ BpodVideoNotMore
    \/ BpodAssertError \/ BpodReturn

SpecBpod == BpodInit /\ [][BpodNext]_vars

(***************************************************************************)
(* CameraTimestampsBpod._extract: ts = self._times_from_bpod(), then the   *)
(* alignment to the audio TTLs when the video has an embedded pin state.   *)
(* x_pin_state is <<>> for None; extracted is <<>> for None.               *)
(***************************************************************************)
\* the steps of CameraTimestampsFPGA._extract on a pin state: the calls and
\* the shapes of the audio and pin state arguments
HardwarePathCalls ==
    <<[fn |-> "groom_pin_state", audio |-> "dict", pin_state |-> {"indices", "polarities"}],
      [fn |-> "align_with_audio", audio |-> "dict",
       pin_state |-> {"indices", "polarities", "times"}]>>

\* count and pin state as raw.load_embedded_frame_data returns them
EmbeddedCounts == [1..2 -> 0..1]
EmbeddedPinStates == {<<>>} \cup {<<g>> : g \in {h \in Gpios : Len(h.indices) = 1}}

\* the audio fronts raw.load_bpod_fronts returns
BpodFronts == {a \in Audios : a.times = Floats(<<0, 1>>)}

\* pin_state is not None and any(pin_state): the dict has a key
HasPinState(p) == p # <<>>

\* what the assertions of align_with_audio(ts, audio['times'][::2],
\* pin_state, count) raise: pin_state has no 'times'
AlignCallError(t, cnt) ==
    IF ~IntStrictlyIncreasing(cnt)
    THEN "AssertionError: frame count not strictly increasing"
    ELSE IF ~StrictlyIncreasing(t)
    THEN "AssertionError: FPGA camera times not strictly increasing"
    ELSE "KeyError: 'times'"

\* sessions of one trial, and of two trials after a regular first one
ExtractSessions ==
    {s \in Sessions : Len(s) = 1 \/ (Len(s) = 2 /\ s[1] = MakeTrial(0, 2, 1, "aligned"))}

ExtractInit ==
    /\ pc = "bpod_loop" /\ err = "" /\ ret = <<>>
    /\ bpod_trials \in ExtractSessions
    /\ nframes \in 0..MaxVideo
    /\ ind = 0 /\ cam_times = <<>> /\ n_frames = 0 /\ n_out_of_sync = 0
    /\ frame_times = <<>>
    /\ AttrIdle /\ AlignIdle /\ GroomIdle /\ ExtractIdle /\ FpgaIdle /\ LoggerIdle

\* count, pin_state = raw.load_embedded_frame_data(...)
ExtractLoad ==
    /\ pc = "bpod_done"
    /\ x_count' \in EmbeddedCounts
    /\ x_pin_state' \in EmbeddedPinStates
    /\ pc' = "extract_loaded"
    /\ UNCHANGED <<err, ret, attrVars, alignVars, fpgaVars, loggerVars,
                   groomVars, bpodVars, x_audio, calls, extracted>>

\* no pin state: a warning is logged and the method ends without a return
ExtractNoPinState ==
    /\ pc = "extract_loaded"
    /\ ~HasPinState(x_pin_state)
    /\ extracted' = <<>>
    /\ pc' = "extract_done"
    /\ UNCHANGED <<err, ret, attrVars, alignVars, fpgaVars, loggerVars,
                   groomVars, bpodVars, x_count, x_pin_state, x_audio, calls>>

\* the assertions on the polarities of the Bpod audio fronts fail
ExtractAudioError ==
    /\ pc = "extract_loaded"
    /\ HasPinState(x_pin_state)
    /\ x_audio' \in BpodFronts
    /\ ~(Alternates(x_audio'.polarities) /\ x_audio'.polarities[1] = 1)
    /\ pc' = "failed" /\ err' = "AssertionError"
    /\ UNCHANGED <<ret, attrVars, alignVars, fpgaVars, loggerVars, groomVars, bpodVars,
                   x_count, x_pin_state, calls, extracted>>

\* return align_with_audio(ts, audio['times'][::2], pin_state, count)
ExtractAlignError ==
    /\ pc = "extract_loaded"
    /\ HasPinState(x_pin_state)
    /\ x_audio' \in BpodFronts
    /\ Alternates(x_audio'.polarities) /\ x_audio'.polarities[1] = 1
    /\ calls' = Append(calls, [fn |-> "align_with_audio", audio |-> "array",
                               pin_state |-> {"indices", "polarities"}])
    /\ pc' = "failed" /\ err' = AlignCallError(ret[1], x_count)
    /\ UNCHANGED <<ret, attrVars, alignVars, fpgaVars, loggerVars, groomVars, bpodVars,
                   x_count, x_pin_state, extracted>>

ExtractNext ==
    \/ BpodNext
    \/ ExtractLoad \/ ExtractNoPinState \/ ExtractAudioError \/ ExtractAlignError

SpecExtract == ExtractInit /\ [][ExtractNext]_vars

(***************************************************************************)
(* CameraTimestampsFPGA._extract.  x_pin_state is <<>> for None.  The      *)
(* calls of groom_pin_state and of align_with_audio are the actions of     *)
(* these functions, entered at "groom_call" and at "align_call".           *)
(***************************************************************************)
\* fpga_times[self.label]: three or more camera TTL times in increasing
\* order, or two times out of order
FpgaTimes ==
    {Floats(s) : s \in {q \in IncreasingSeqs(MaxTime) : Len(q) >= 3} \cup {<<1, 0>>}}

\* the embedded frame counter: three or more frame numbers in increasing
\* order, or two out of order
FpgaCounts == {q \in IncreasingSeqs(MaxFrame) : Len(q) >= 3} \cup {<<1, 0>>}

\* the embedded pin state: None, or a record of transitions
FpgaPinStates ==
    {<<>>} \cup
    {<<g>> : g \in {h \in Gpios : h.indices \in {<<1>>, <<0, 1>>, <<1, 2>>, <<1, 3>>,
                                                 <<1, NFrames>>, <<2, NFrames>>,
                                                 <<1, 2, 3>>, <<0, 1, 2, 3, 4>>}}}

\* the audio TTLs of the sync channel
FpgaAudios ==
    {a \in Audios : a.times \in {Floats(<<1>>), Floats(<<4>>), Floats(<<1, 2>>),
                                 Floats(<<2, 1>>), Floats(<<3, 4>>), Floats(<<1, 2, 3>>),
                                 Floats(<<0, 1, 2, 3>>)}}

\* gpio is not None and gpio['indices'].size > 1
HasTransitions(p) == p # <<>> /\ Len(p[1].indices) > 1

FpgaInit ==
    /\ pc = "fpga_call" /\ err = "" /\ ret = <<>>
    /\ fpga_times \in FpgaTimes
    /\ x_count \in FpgaCounts
    /\ x_pin_state \in FpgaPinStates
    /\ length = 0
    /\ x_audio = [times |-> <<>>, polarities |-> <<>>]
    /\ calls = <<>> /\ extracted = <<>>
    /\ AttrIdle /\ AlignIdle /\ GroomIdle /\ BpodIdle /\ LoggerIdle

\* no pin state: a warning is logged and the raw FPGA times are returned
FpgaNoPinState ==
    /\ pc = "fpga_call"
    /\ ~HasTransitions(x_pin_state)
    /\ extracted' = <<fpga_times>>
    /\ pc' = "fpga_done"
    /\ UNCHANGED <<err, ret, attrVars, alignVars, groomVars, bpodVars, loggerVars,
                   fpgaVars, x_count, x_pin_state, x_audio, calls>>

\* the audio TTLs and the frame times are loaded and groom_pin_state is
\* called
FpgaGroom ==
    /\ pc = "fpga_call"
    /\ HasTransitions(x_pin_state)
    /\ x_audio' \in FpgaAudios
    /\ ts_in' \in FrameTimes
    /\ gpio_arg' = x_pin_state[1] /\ gpio' = x_pin_state[1]
    /\ audio_in' = x_audio'
    /\ calls' = Append(calls, [fn |-> "groom_pin_state", audio |-> "dict",
                               pin_state |-> {"indices", "polarities"}])
    /\ pc' = "groom_call"
    /\ UNCHANGED <<err, ret, attrVars, alignVars, bpodVars, loggerVars, fpgaVars,
                   ifronts, onsets_, offsets_, audio_, unassigned,
                   x_count, x_pin_state, extracted>>

\* the video lengths get_video_length may return
MaxLength == 4

\* the counter left as it is
TruncatedNone(cnt, n) == cnt

\* count[:length]
Truncated(cnt, n) == SubSeq(cnt, 1, n)

\* timestamps = align_with_audio(raw_ts, audio, gpio, count) is called on
\* what groom_pin_state returned
AlignCalled(cnt) ==
    /\ timestamps' = fpga_times
    /\ audio' = ret[1].audio
    /\ pin_state' = ret[1].gpio
    /\ count' = cnt
    /\ extrapolate_missing' = TRUE
    /\ calls' = Append(calls, [fn |-> "align_with_audio", audio |-> "dict",
                               pin_state |-> DOMAIN ret[1].gpio])
    /\ ret' = <<>>
    /\ pc' = "align_call"
    /\ UNCHANGED <<err, attrVars, groomVars, bpodVars, loggerVars, fpga_times,
                   first_uptick, first_ttl, start, ts,
                   x_count, x_pin_state, x_audio, extracted>>

\* count.size > length: count = count[:length]
FpgaTruncate ==
    /\ pc = "groom_done"
    /\ length' \in 0..MaxLength
    /\ Len(x_count) > length'
    /\ AlignCalled(Truncated(x_count, length'))

\* assert length == count.size holds
FpgaSameLength ==
    /\ pc = "groom_done"
    /\ length' \in 0..MaxLength
    /\ Len(x_count) = length'
    /\ AlignCalled(x_count)

\* assert length == count.size, 'fewer counts than frames' fails
FpgaFewerCounts ==
    /\ pc = "groom_done"
    /\ length' \in 0..MaxLength
    /\ Len(x_count) < length'
    /\ pc' = "failed" /\ err' = "AssertionError: fewer counts than frames"
    /\ UNCHANGED <<ret, attrVars, alignVars, groomVars, bpodVars, loggerVars,
                   fpga_times, extractVars>>

\* return timestamps
FpgaReturn ==
    /\ pc = "align_done"
    /\ extracted' = ret
    /\ pc' = "fpga_done"
    /\ UNCHANGED <<err, ret, attrVars, alignVars, groomVars, bpodVars, loggerVars,
                   fpgaVars, x_count, x_pin_state, x_audio, calls>>

FpgaNext ==
    \/ FpgaNoPinState \/ FpgaGroom
    \/ GroomNext
    \/ FpgaTruncate \/ FpgaSameLength \/ FpgaFewerCounts
    \/ AlignNext
    \/ FpgaReturn

SpecFpga == FpgaInit /\ [][FpgaNext]_vars

(***************************************************************************)
(* Properties of attribute_times.                                          *)
(***************************************************************************)
\* reference j (1-based) can still be given to candidate number n (0-based):
\* it is finite and, when injective, no earlier candidate holds it
Available(j, n) ==
    /\ IsFinite(arr[j])
    /\ ~(injective /\ \E k \in 1..n : assigned[k] = j - 1)

\* |arr[j] - x| < tol
Within(j, x) == IsLess(AbsDiff(arr[j], x), tol)

\* the references candidate number n (0-based) may be matched to
Matchable(n) == {j \in 1..Len(arr) : Available(j, n) /\ Within(j, events[n + 1])}

\* an iteration of the loop is being taken
Iteration == pc = "attr_loop" /\ i' = i + 1

IsScenario ==
    /\ arr = ScenarioArr /\ events = ScenarioEvents /\ tol = ScenarioTol
    /\ injective

Matched(a) == Cardinality({k \in 1..Len(a) : a[k] # -1})

\* C1: in injective mode no reference index is assigned to two candidates:
\* every value other than -1 occurs at most once in the output, at every
\* point of the loop and in the returned array.
C1_InjectiveNoDuplicate ==
    injective =>
        /\ \A j, k \in 1..Len(assigned) :
              (j # k /\ assigned[j] # -1) => assigned[j] # assigned[k]
        /\ (pc = "attr_done" => ret[1] = assigned)

\* two equal candidates were both matched, to different references
W_C1 ==
    /\ pc = "attr_done" /\ injective
    /\ \E j, k \in 1..Len(events) :
          /\ j < k /\ events[j] = events[k]
          /\ ret[1][j] # -1 /\ ret[1][k] # -1

\* C2: under 'first' a candidate that has a matchable reference receives the
\* lowest-index one, whether or not a closer one exists, and the scenario
\* [1.0, 1.05, 3.0] / [1.02, 3.01] / 0.1 returns [0, 2].
C2_FirstTakesLowestIndex ==
    [][/\ (Iteration /\ take = "first" /\ Matchable(i) # {}) =>
              /\ assigned'[i + 1] + 1 \in Matchable(i)
              /\ \A j \in Matchable(i) : assigned'[i + 1] + 1 <= j
       /\ (pc' = "attr_done" /\ IsScenario /\ take = "first") =>
              ret' = << <<0, 2>> >>]_vars

\* a 'first' run gave a candidate a reference although a closer one was free
W_C2 ==
    /\ pc = "attr_done" /\ take = "first" /\ Len(events) > 0
    /\ ret[1][1] # -1
    /\ \E j \in 1..Len(arr) :
          /\ IsFinite(arr[j])
          /\ IsLess(AbsDiff(arr[j], events[1]),
                    AbsDiff(arr[ret[1][1] + 1], events[1]))

\* what 'nearest' does in one iteration: the matchable reference of
\* smallest difference is taken
NearestTakesClosest ==
    (Iteration /\ take = "nearest" /\ Matchable(i) # {}) =>
        /\ assigned'[i + 1] + 1 \in Matchable(i)
        /\ \A j \in 1..Len(arr) :
              Available(j, i) =>
                  ~IsLess(AbsDiff(arr[j], events[i + 1]),
                          AbsDiff(arr[assigned'[i + 1] + 1], events[i + 1]))

\* C3 as stated: 'nearest' takes the closest matchable reference, and the
\* scenario returns [1, 2].
C3_Original ==
    [][/\ NearestTakesClosest
       /\ (pc' = "attr_done" /\ IsScenario /\ take = "nearest") =>
              ret' = << <<1, 2>> >>]_vars

\* C3 (amended): 'nearest' takes the closest matchable reference, and the
\* scenario returns [0, 2], since 1.02 is nearer to 1.0 than to 1.05.
C3_NearestTakesClosest ==
    [][/\ NearestTakesClosest
       /\ (pc' = "attr_done" /\ IsScenario /\ take = "nearest") =>
              ret' = << <<0, 2>> >>]_vars

\* a 'nearest' run passed over a lower-index reference within tolerance
W_C3 ==
    /\ pc = "attr_done" /\ take = "nearest" /\ Len(events) > 0
    /\ ret[1][1] > 0
    /\ \E j \in 1..ret[1][1] : IsFinite(arr[j]) /\ Within(j, events[1])

\* the number of matches of the call with tolerance t2 in place of tol
MatchedAt(t2) == Matched(AttributeTimes(arr, events, t2, injective, take))

AllTols == Tols \cup {ScenarioTol}

\* C4 as stated: for every tolerance above tol the number of matched
\* entries is at least the number matched with tol, for both policies and
\* both injective settings (with an equal tolerance the two calls are the
\* same call).
C4_Original ==
    pc = "attr_done" =>
        \A t2 \in AllTols : IsLess(tol, t2) => Matched(ret[1]) <= MatchedAt(t2)

\* C4 (amended): the same, for every call that is not injective and for
\* every injective call with policy 'nearest'.
C4_MonotoneInTolerance ==
    (pc = "attr_done" /\ (~injective \/ take = "nearest")) =>
        \A t2 \in AllTols : IsLess(tol, t2) => Matched(ret[1]) <= MatchedAt(t2)

\* an injective 'nearest' call that matches more with a larger tolerance
\* while a candidate loses the reference it had to an earlier candidate
W_C4 ==
    /\ pc = "attr_done" /\ injective /\ take = "nearest"
    /\ \E t2 \in AllTols :
          /\ IsLess(tol, t2)
          /\ Matched(ret[1]) < MatchedAt(t2)
          /\ \E k \in 1..Len(events) :
                /\ ret[1][k] # -1
                /\ AttributeTimes(arr, events, t2, injective, take)[k] # ret[1][k]

KnownPolicy(s) ==
    s \in {"first", "First", "FIRST", "nearest", "Nearest", "NEAREST"}

\* C6: a call whose policy is neither 'first' nor 'nearest' in any letter
\* case fails with the policy error, with no candidate processed and no
\* output made.
C6_BadPolicyRejected ==
    [][(pc = "attr_call" /\ ~KnownPolicy(take)) =>
          /\ pc' = "failed" /\ err' = "ValueError: take"
          /\ ret' = <<>> /\ assigned' = <<>> /\ mask' = <<>> /\ i' = 0]_vars

\* a call with candidates to process was rejected for its policy
W_C6 ==
    /\ pc = "failed" /\ err = "ValueError: take"
    /\ Len(events) > 0 /\ Len(arr) > 0
    /\ ret = <<>> /\ assigned = <<>>

HasNonFinite(a) == \E j \in 1..Len(a) : ~IsFinite(a[j])

\* C7: no candidate is assigned a non-finite reference entry, and a call
\* with non-finite reference entries does not fail because of them.
C7_NonFiniteNeverAssigned ==
    /\ \A k \in 1..Len(assigned) :
          assigned[k] # -1 => IsFinite(arr[assigned[k] + 1])
    /\ (HasNonFinite(arr) /\ KnownPolicy(take)) => pc # "failed"

\* a call whose reference starts with a non-finite entry returned with a
\* match to the entry after it, in non-injective mode
W_C7 ==
    /\ pc = "attr_done" /\ ~injective
    /\ Len(arr) > 1 /\ ~IsFinite(arr[1])
    /\ \E k \in 1..Len(events) : ret[1][k] = 1

(***************************************************************************)
(* Properties of align_with_audio.                                         *)
(***************************************************************************)
\* the frame counter skips a frame number
HasGaps(cnt) == \E j \in 1..(Len(cnt) - 1) : cnt[j + 1] > cnt[j] + 1

\* the trimmed timestamps were fewer than the frame counts, so the tail of
\* ts was padded
Padded == Len(Slice(timestamps, start, count[Len(count)] + 1 + start)) < Len(count)

\* C8: the array align_with_audio returns has as many entries as the frame
\* counter count, with or without gaps and with or without padding.
C8_LengthEqualsCount ==
    pc = "align_done" => Len(ret[1]) = Len(count)

\* a call returned for a frame counter with gaps, leaving out timestamps
W_C8 ==
    /\ pc = "align_done" /\ HasGaps(count)
    /\ Len(ret[1]) < Len(timestamps)

C10_ReturnsOnlyIfConsistent ==
    /\ pc = "align_done" =>
          /\ searchsorted(timestamps, audio.times[1]) - count[pin_state.indices[1] + 1] >= 0
          /\ searchsorted(ret[1], audio.times[1]) = pin_state.indices[1]
    /\ pc = "failed" => ret = <<>>

\* a call passed the trim and failed the closing check after padding
W_C10 ==
    /\ pc = "failed" /\ err = "AssertionError: searchsorted"
    /\ start >= 0 /\ Padded /\ ret = <<>>

(***************************************************************************)
(* Properties of the validation and of the padding of align_with_audio.    *)
(***************************************************************************)
\* one of the three raw inputs is malformed
Malformed ==
    \/ ~IntStrictlyIncreasing(count)
    \/ ~StrictlyIncreasing(timestamps)
    \/ Len(pin_state.times) # Len(audio.times)

\* C11: a call whose frame counter or raw timestamps are not strictly
\* increasing, or whose pin state has another number of transition times than
\* there are audio TTL times, fails at once: nothing is computed and no array
\* is returned.
C11_MalformedRejected ==
    [][(pc = "align_call" /\ Malformed)
         => /\ pc' = "failed" /\ err' # "" /\ ret' = <<>>
            /\ UNCHANGED <<first_uptick, first_ttl, start, ts>>]_vars

W_C11 ==
    /\ pc = "failed" /\ ret = <<>> /\ ts = <<>>
    /\ IntStrictlyIncreasing(count) /\ StrictlyIncreasing(timestamps)
    /\ Len(pin_state.times) # Len(audio.times)

\* the call passed the validation, the trim offset is not negative and fewer
\* trimmed timestamps remain than there are frame counter entries
FewerThanCount ==
    /\ pc \in {"align_pad", "align_size", "align_done", "failed"}
    /\ RawDataError = ""
    /\ FirstUptick < Len(count)
    /\ Start >= 0
    /\ Padded

\* C12: with fewer trimmed timestamps than frame counter entries the call
\* does not fail: the tail is padded to a length of at least max(count) + 1
\* and a result is returned, whether or not the frame counter has gaps.
C12_PaddingNeverFatal ==
    FewerThanCount
      => /\ pc # "failed"
         /\ pc = "align_size" => Len(ts) >= count[Len(count)] + 1
         /\ pc = "align_done" => ret # <<>>

(***************************************************************************)
(* Properties of groom_pin_state.                                          *)
(***************************************************************************)
\* the inputs passed the validation and there are not as many pin state
\* transitions as audio TTLs
Grooming == GroomDataError = "" /\ Len(gpio.indices) # Len(audio_in.times)

\* C13: grooming is never fatal: for validated inputs with another number of
\* pin state transitions than audio TTLs the call returns a result, also when
\* rises or falls cannot be attributed; at most an assertion on the inputs
\* makes it fail.
C13_GroomingNeverFatal ==
    (pc = "failed" /\ Grooming) => err = "AssertionError: low2high.size >= high2low.size"

\* C14: when groom_pin_state returns, the groomed audio TTLs have as many times
\* as the pin state returned has transitions, and the pin state has one
\* converted time per transition: the sizes align_with_audio compares agree.
C14_SameNumberOfTTLs ==
    pc = "groom_done"
      => /\ Len(ret[1].audio.times) = Len(ret[1].gpio.indices)
         /\ Len(ret[1].gpio.times) = Len(ret[1].gpio.indices)
         /\ Len(ret[1].gpio.times) = Len(ret[1].audio.times)

\* a return after grooming, with events beyond the timestamps left out
W_C14 ==
    /\ pc = "groom_done"
    /\ Len(audio_in.times) # Len(ret[1].gpio.indices)
    /\ Len(ret[1].gpio.indices) < Len(gpio_arg.indices)
    /\ Len(ret[1].audio.times) > 2

(***************************************************************************)
(* Properties of _times_from_bpod.                                         *)
(***************************************************************************)
\* the frame times of the trials and of the gaps have been assembled
Assembled == pc \in {"bpod_video", "bpod_check", "bpod_done"}

\* the gap after retained trial k (1-based), and the number of timestamps
\* round(gap * rate) - 1 claimed for it, the rate being 4 / Period4
GapAfter(k) == cam_times[k + 1][1] - cam_times[k][Len(cam_times[k])]
ClaimedInserted(k) == Round(4 * GapAfter(k), Period4(cam_times)) - 1

\* the place in frame_times of the last pulse of retained trial k
RECURSIVE LastSlot(_)
LastSlot(k) ==
    IF k = 1 THEN Len(cam_times[1])
    ELSE LastSlot(k - 1) + ClaimedInserted(k - 1) + Len(cam_times[k])

\* trials [0, 0.1, 0.2] and [0.5, 0.6, 0.7]
ScenarioCamTimes == <<<<0, 2, 4>>, <<10, 12, 14>>>>

C16_PositiveOrFails ==
    [][/\ pc' = "bpod_done" => (ret' = <<frame_times>> /\ StrictlyIncreasing(ret'[1]))
       /\ (pc = "bpod_check" /\ ~StrictlyIncreasing(frame_times))
            => (pc' = "failed" /\ ret' = <<>>)]_vars

\* a return with interpolated and with extrapolated times
W_C16 ==
    /\ pc = "bpod_done" /\ Len(cam_times) = 2
    /\ ClaimedInserted(1) > 0
    /\ nframes > n_frames + ClaimedInserted(1)
    /\ Len(ret[1]) = nframes

\* C17: the returned array has as many entries as the video has frames:
\* the missing ones are appended when the video has more, and the length is
\* the frame count in every case.
C17_LengthIsFrameCount ==
    pc = "bpod_done" => Len(ret[1]) = nframes

(***************************************************************************)
(* Properties of CameraTimestampsBpod._extract and of the inputs of the    *)
(* alignment functions.                                                    *)
(***************************************************************************)
\* C18: without a pin state the Bpod extractor returns the array that
\* _times_from_bpod returned.
C18_FallbackReturned ==
    (pc = "extract_done" /\ ~HasPinState(x_pin_state)) => extracted = ret

\* C19: with a pin state and valid audio fronts the Bpod extractor takes the
\* steps of the hardware path: groom_pin_state, then align_with_audio, on a
\* pin state record and an audio edge set.
C19_SameStepsAsHardwarePath ==
    (pc \in {"extract_done", "failed"} /\ HasPinState(x_pin_state) /\ err # "AssertionError")
      => calls = HardwarePathCalls

\* C20: a call of groom_pin_state leaves its arguments as they were: the pin
\* state record keeps its keys and contents, and so do the audio TTLs and the
\* frame times.
C20_ArgumentsUnchanged ==
    [][(pc \in {"groom_call", "groom_check", "groom_fronts", "groom_offsets",
                "groom_fill", "groom_fit"})
         => (DOMAIN gpio_arg' = DOMAIN gpio_arg /\ gpio_arg' = gpio_arg
             /\ audio_in' = audio_in /\ ts_in' = ts_in)]_vars

(***************************************************************************)
(* Properties of the trim and collapse steps of align_with_audio.          *)
(***************************************************************************)
\* the insertion index of the first audio TTL in the raw timestamps, less the
\* frame counter value at the first pin state transition index
FrameZero == searchsorted(timestamps, audio.times[1]) - count[pin_state.indices[1] + 1]

\* C21: the trim and collapse steps select raw timestamps by frame number:
\* every entry j of the returned array whose position FrameZero + count[j]
\* lies within the raw timestamps is the raw timestamp at that position, so
\* frame number 0 is at FrameZero and the timestamps of dropped frames are
\* skipped.
C21_SelectsByFrameNumber ==
    pc = "align_done"
      => \A j \in 1..Len(ret[1]) :
            FrameZero + count[j] < Len(timestamps)
              => ret[1][j] = timestamps[FrameZero + count[j] + 1]

\* a return with leading timestamps trimmed and a dropped frame skipped
W_C21 ==
    /\ pc = "align_done" /\ FrameZero > 0 /\ HasGaps(count)
    /\ \E j \in 2..Len(ret[1]) :
          /\ count[j] > count[j - 1] + 1
          /\ FrameZero + count[j] < Len(timestamps)
          /\ ret[1][j] = timestamps[FrameZero + count[j] + 1]

(***************************************************************************)
(* Properties of the trials of _times_from_bpod.                           *)
(***************************************************************************)
\* the pulse times of the first k retained trials, one after the other
RECURSIVE Concatenated(_, _)
Concatenated(cam, k) ==
    IF k = 0 THEN <<>> ELSE Concatenated(cam, k - 1) \o Floats(cam[k])

\* the entries of a appear in b, in the order of a
RECURSIVE AppearsInOrder(_, _)
AppearsInOrder(a, b) ==
    IF a = <<>> THEN TRUE
    ELSE IF b = <<>> THEN FALSE
    ELSE IF Head(a) = Head(b) THEN AppearsInOrder(Tail(a), Tail(b))
    ELSE AppearsInOrder(a, Tail(b))

\* C22: every retained rising edge time of every retained trial is in the
\* assembled array, in trial order and in the order within the trial,
\* whatever the gaps between the trials are, gaps shorter than half a frame
\* period included.
C22_AllPulseTimesKept ==
    Assembled => AppearsInOrder(Concatenated(cam_times, Len(cam_times)), frame_times)

\* the trial was retained by the loop
Retained(trial) == ~NoCameraEvents(trial)

\* C23: in the cleanup of a trial a falling edge before the first rising edge
\* is dropped and the falling edges are cut to the number of rising edges:
\* the rising and the falling edges of a retained trial are equally many and
\* no rising edge is discarded, for every number of rising and falling edges.
C23_FallsCutToRises ==
    \A k \in 1..ind :
        Retained(bpod_trials[k])
          => /\ Pin(bpod_trials[k]) = bpod_trials[k].pin
             /\ Len(Pout(bpod_trials[k])) = Len(Pin(bpod_trials[k]))

\* a pulse of the trial deviates from the median pulse by 10% or more, or a
\* period deviates from the median period by more than the tolerance
Irregular(trial) == ~(test1(Pin(trial), Pout(trial)) /\ test2(Pin(trial)))

\* frame_times as assembled from the retained trials and the frame count of
\* the video
Returned(cam, n) ==
    LET ft == FillUpTo(cam, Len(cam)).ft
    IN IF n > Len(ft) THEN ft \o Appended(cam, ft, n - Len(ft)) ELSE ft

\* C24: the out-of-sync count is the number of retained trials, the first
\* included, that are irregular; the count does not make the call fail and
\* has no part in the array returned.
C24_OutOfSyncCount ==
    /\ Assembled
         => n_out_of_sync = Cardinality({k \in 1..Len(bpod_trials) :
                                Retained(bpod_trials[k]) /\ Irregular(bpod_trials[k])})
    /\ pc = "bpod_done" => ret = <<Returned(cam_times, nframes)>>

\* the trial has no frame sync edges: Port1In is absent from the events of
\* the trial, or it is an empty list
NoEdges(trial) == ~trial.present \/ trial.pin = <<>>

\* C25: a trial without frame sync edges is discarded: the loop goes on to
\* the next trial, the trial adds no frame times, is not counted as out of
\* sync and the call does not fail.
C25_NoEdgesDiscarded ==
    [][(pc = "bpod_loop" /\ ind < Len(bpod_trials) /\ NoEdges(bpod_trials[ind + 1]))
         => /\ pc' = "bpod_loop" /\ ind' = ind + 1 /\ err' = ""
            /\ UNCHANGED <<cam_times, n_frames, n_out_of_sync>>]_vars

(***************************************************************************)
(* Properties of the validation and of the diagnostics of groom_pin_state. *)
(***************************************************************************)
\* the audio TTLs or the pin state passed to groom_pin_state are malformed
MalformedReference ==
    \/ Len(audio_in.times) # Len(audio_in.polarities)
    \/ \E j \in 1..(Len(audio_in.polarities) - 1) :
          audio_in.polarities[j + 1] = audio_in.polarities[j]
    \/ audio_in.polarities[1] # 1
    \/ ~StrictlyIncreasing(audio_in.times)
    \/ Len(gpio_arg.indices) = 0
    \/ gpio_arg.polarities[1] # 1

\* C26: malformed reference data is rejected before any matching or clock
\* fitting: with audio times and polarities of different lengths, two equal
\* consecutive audio polarities, a first audio polarity other than +1, audio
\* times not strictly increasing, no pin state transition or a first pin state
\* polarity other than +1, the call fails on an assertion, nothing has been
\* attributed or fitted and the inputs are as they were passed.
C26_MalformedReferenceRejected ==
    MalformedReference
      => /\ pc \in {"groom_call", "groom_check", "failed"}
         /\ pc = "failed" => (err = GroomDataError /\ err # "" /\ ret = <<>>)
         /\ ifronts = <<>> /\ onsets_ = <<>> /\ offsets_ = <<>> /\ unassigned = <<>>
         /\ audio_.times = <<>> /\ "times" \notin DOMAIN gpio

\* a call failed for audio times out of order, all else being well formed
W_C26 ==
    /\ pc = "failed" /\ err = "AssertionError: audio times not in order"
    /\ ~StrictlyIncreasing(audio_in.times)
    /\ Len(gpio_arg.indices) > Len(audio_in.times)
    /\ gpio_arg.polarities[1] = 1

\* the audio rising (p = 1) or falling (p = 0) edges, by their place among
\* the edges of their polarity, that no pin state edge was assigned to
NotDetected(p, a) ==
    {k \in 0..(Len(IF p = 1 THEN Even(audio_in.times) ELSE Odd(audio_in.times)) - 1) :
        \A j \in 1..Len(a) : a[j] # k}

\* C27: the diagnostic counts are exact: the count reported for the audio
\* rises is the number of audio rising edges assigned to no pin state rise,
\* and the count reported for the audio falls is the number of audio falling
\* edges assigned to no pin state fall, for an even and for an odd number of
\* audio edges.
C27_DiagnosticCountsExact ==
    /\ Len(unassigned) >= 1 => unassigned[1] = Cardinality(NotDetected(1, AssignedOnsets))
    /\ Len(unassigned) >= 2 => unassigned[2] = Cardinality(NotDetected(0, AssignedOffsets))

(***************************************************************************)
(* align_with_audio_safe(timestamps, audio, pin_state, count,              *)
(*                       extrapolate_missing), as a function of its        *)
(* arguments: the error raised ("" for none) and the array returned.       *)
(***************************************************************************)
\* the three assertions made on the raw data
SafeRawDataError(t, a, p, c) ==
    IF \E j \in 1..(Len(c) - 1) : ~(c[j + 1] - c[j] > 0)
    THEN "AssertionError: frame count not strictly increasing"
    ELSE IF \E j \in 1..(Len(t) - 1) : ~IsLess(t[j], t[j + 1])
    THEN "AssertionError: FPGA camera times not strictly increasing"
    ELSE IF Len(p.times) # Len(a.times)
    THEN "AssertionError: more audio TTLs detected on camera than TTLs sent"
    ELSE ""

\* start = first_ttl - first_uptick - (count[first_uptick] - first_uptick)
SafeStartAlt(t, a, p, c) == searchsorted(t, a.times[1]) - p.indices[1]
SafeStart(t, a, p, c) ==
    searchsorted(t, a.times[1]) - p.indices[1] - (c[p.indices[1] + 1] - p.indices[1])

\* ts = timestamps[start:end] for end = count[-1] + 1 + start
SafeTrimmed(t, a, p, c) ==
    Slice(t, SafeStart(t, a, p, c), c[Len(c)] + 1 + SafeStart(t, a, p, c))

\* ts after the missing times were appended
SafePadded(t, a, p, c, e) ==
    LET trimmed == SafeTrimmed(t, a, p, c)
    IN IF Len(trimmed) < Len(c)
       THEN trimmed \o ToApp(trimmed, Len(c) - Len(trimmed), e)
       ELSE trimmed

align_with_audio_safe(t, a, p, c, e) ==
    IF SafeRawDataError(t, a, p, c) # ""
    THEN [err |-> SafeRawDataError(t, a, p, c), ret |-> <<>>]
    ELSE IF p.indices[1] + 1 > Len(c)
    THEN [err |-> "IndexError", ret |-> <<>>]
    ELSE IF SafeStart(t, a, p, c) < 0
    THEN [err |-> "AssertionError: start >= 0", ret |-> <<>>]
    ELSE IF Len(SafeTrimmed(t, a, p, c)) < Len(c) /\ Len(SafeTrimmed(t, a, p, c)) < 2
    THEN [err |-> "ValueError: cannot convert float NaN to integer", ret |-> <<>>]
    ELSE LET padded == SafePadded(t, a, p, c, e)
         IN IF ~(Len(padded) >= Len(c)) \/ Len(padded) # c[Len(c)] + 1
            THEN [err |-> "AssertionError: ts.size", ret |-> <<>>]
            ELSE IF searchsorted(TakeAt(padded, c), a.times[1]) # p.indices[1]
            THEN [err |-> "AssertionError: searchsorted", ret |-> <<>>]
            ELSE [err |-> "", ret |-> <<TakeAt(padded, c)>>]

\* C29: align_with_audio, with display off, and align_with_audio_safe are the
\* same function: on the same arguments both fail at the same check or both
\* return, and the arrays they return are equal.
C29_SameAsSafe ==
    pc \in {"align_done", "failed"}
      => [err |-> err, ret |-> ret]
           = align_with_audio_safe(timestamps, audio, pin_state, count, extrapolate_missing)

\* both return a trimmed and padded array
W_C29 ==
    /\ pc = "align_done" /\ Padded /\ start > 0
    /\ align_with_audio_safe(timestamps, audio, pin_state, count, extrapolate_missing).ret = ret
    /\ Len(ret[1]) >= 3

(***************************************************************************)
(* The level of the module logger _logger = logging.getLogger('ibllib')    *)
(* over the creations and the teardowns of CameraTimestampsFPGA instances. *)
(***************************************************************************)
MaxInstances == 4

\* the levels of the logging module
Levels == {"NOTSET", "DEBUG", "INFO", "WARNING", "ERROR", "CRITICAL"}

\* no instance has been created yet
NoneCreated == \A k \in 1..MaxInstances : instances[k] = "none"

\* the number of instances created and not yet torn down
Alive == Cardinality({k \in 1..MaxInstances : instances[k] = "alive"})

LoggerInit ==
    /\ pc = "logger" /\ err = "" /\ ret = <<>>
    /\ level \in Levels /\ prior_level = level
    /\ instances = [k \in 1..MaxInstances |-> "none"]
    /\ AttrIdle /\ AlignIdle /\ GroomIdle /\ BpodIdle /\ ExtractIdle /\ FpgaIdle

\* CameraTimestampsFPGA.__init__: _logger.setLevel(logging.DEBUG)
LoggerCreate ==
    \E k \in 1..MaxInstances :
        /\ instances[k] = "none"
        /\ instances' = [instances EXCEPT ![k] = "alive"]
        /\ level' = "DEBUG"
        /\ UNCHANGED <<ctlVars, attrVars, alignVars, groomVars, bpodVars, extractVars,
                       fpgaVars, prior_level>>

\* CameraTimestampsFPGA.__del__: _logger.setLevel(logging.INFO)
LoggerDel ==
    \E k \in 1..MaxInstances :
        /\ instances[k] = "alive"
        /\ instances' = [instances EXCEPT ![k] = "deleted"]
        /\ level' = "INFO"
        /\ UNCHANGED <<ctlVars, attrVars, alignVars, groomVars, bpodVars, extractVars,
                       fpgaVars, prior_level>>

LoggerNext == LoggerCreate \/ LoggerDel

SpecLogger == LoggerInit /\ [][LoggerNext]_vars

\* C30: for every interleaving of creations and teardowns the logger is at
\* DEBUG whenever an instance is alive, and once no instance is alive the
\* level is again the level it had before the first creation.
C30_LevelRestored ==
    /\ Alive > 0 => level = "DEBUG"
    /\ Alive = 0 => level = prior_level

\* ---------------------------------------------------------------------
\* Properties of CameraTimestampsFPGA._extract
\* ---------------------------------------------------------------------

\* align_with_audio has been called by the extractor
HandedOver == \E c \in DOMAIN calls : calls[c].fn = "align_with_audio"

\* C28: on the pin-state path the frame counter handed to align_with_audio
\* has exactly the video's length: a longer counter is cut to the video
\* length, a shorter one makes the extraction fail with 'fewer counts than
\* frames' (and only that does), and every timestamp array returned on this
\* path has one entry per video frame
C28_OneEntryPerFrame ==
    /\ HandedOver =>
           /\ Len(count) = length
           /\ Len(x_count) >= length
           /\ \A c \in 1..length : count[c] = x_count[c]
    /\ (err = "AssertionError: fewer counts than frames") <=> (Len(x_count) < length)
    /\ (Len(x_count) < length) => (pc = "failed" /\ ~HandedOver /\ extracted = <<>>)
    /\ (pc = "fpga_done" /\ HasTransitions(x_pin_state)) =>
           /\ HandedOver
           /\ Len(extracted[1]) = length

\* a counter longer than the video was cut and the timestamps were returned
W_C28 ==
    /\ pc = "fpga_done" /\ HasTransitions(x_pin_state)
    /\ Len(x_count) > length /\ length > 0
    /\ Len(count) = length
    /\ Len(extracted[1]) = length

====
